---- MODULE Spec2Model ----
(***************************************************************************)
(* PhotonicMatrixMultiplier (src/photonic_core.py): the Mach-Zehnder mesh, *)
(* its ring-resonator weights and the SCL calibration loop.                *)
(*                                                                         *)
(* Reals are fixed-point integers:                                         *)
(*   angles        TwoPi units per turn (theta, phi, np.angle)             *)
(*   amplitudes    AmpOne units per 1.0, complex numbers are <<re, im>>    *)
(*   cos / sin     TrigOne units per 1.0                                   *)
(*   weights       WOne units per 1.0                                      *)
(*   wavelengths   one unit is 0.01 angle units, so that the code's        *)
(*                 "_res_wavelengths += step * 0.01" adds the integer step *)
(*                 theta_under[k] marks a theta[k] that is a negative      *)
(*                 float too close to its grid value for the grid to tell  *)
(*   lr            an integer number of learning-rate units                *)
(* Sequences are 1-based: element k of the code is index k + 1.            *)
(***************************************************************************)
EXTENDS Integers, Sequences, FiniteSets, TLC

VARIABLES mesh, np_random, log, mesh0, np0

vars == <<mesh, np_random, log, mesh0, np0>>

\* ------------------------------------------------------------------ bounds
MaxCalls == 2
MaxSize == 3
MaxMeshSize == 6

Inst == {1, 2}

\* ------------------------------------------------------- number formats
TwoPi == 16
AmpOne == 10
TrigOne == 100
WOne == 100
XOne == 10

Abs(x) == IF x < 0 THEN -x ELSE x

\* float division rounds; the fixed-point quotient truncates toward zero
Quot(a, b) ==
    IF b > 0 THEN (IF a >= 0 THEN a \div b ELSE -((-a) \div b))
    ELSE (IF a >= 0 THEN -(a \div (-b)) ELSE (-a) \div (-b))

RECURSIVE IsqrtBetween(_, _, _)
IsqrtBetween(n, lo, hi) ==
    IF hi - lo <= 1 THEN lo
    ELSE LET mid == (lo + hi) \div 2
         IN IF mid * mid <= n THEN IsqrtBetween(n, mid, hi)
            ELSE IsqrtBetween(n, lo, mid)

\* np.sqrt on a non-negative value
Sqrt(n) == IsqrtBetween(n, 0, IF n < 46340 THEN n + 1 ELSE 46341)

CosTable == <<100, 92, 71, 38, 0>>

\* np.cos
Cos(a) ==
    LET r == a % TwoPi
        q == TwoPi \div 4
    IN IF r <= q THEN CosTable[r + 1]
       ELSE IF r <= 2 * q THEN -CosTable[2 * q - r + 1]
       ELSE IF r <= 3 * q THEN -CosTable[r - 2 * q + 1]
       ELSE CosTable[TwoPi - r + 1]

\* np.sin
Sin(a) == Cos(a - TwoPi \div 4)

RECURSIVE SumSeq(_)
SumSeq(s) == IF s = <<>> THEN 0 ELSE Head(s) + SumSeq(Tail(s))

\* a numpy array: the function as a sequence of computed values
Array(f) == f \o <<>>

\* ------------------------------------------- numpy's process-wide generator
\* np.random is one hidden generator shared by the whole process.  Its state
\* is abstracted to a residue advanced by a full-period recurrence; every
\* scalar drawn advances it once.
NpMod == 16
NpNext(g) == (5 * g + 3) % NpMod

RECURSIVE NpStates(_, _)
\* the n generator states behind an array of n draws
NpStates(g, n) == IF n <= 0 THEN <<>> ELSE <<NpNext(g)>> \o NpStates(NpNext(g), n - 1)

NpAfter(g, n) == IF n <= 0 THEN g ELSE NpStates(g, n)[n]

AnglesOf(gs) == Array([k \in 1..Len(gs) |-> gs[k] % TwoPi])

\* np.random.uniform(0, 2 * np.pi, n)
NpUniformAngles(g, n) == AnglesOf(NpStates(g, n))

DetuningStep == 20
\* np.random.normal(0.0, 0.05, n): a few tens of wavelength units either side
DetuningsOf(gs) == Array([k \in 1..Len(gs) |-> ((gs[k] % 5) - 2) * DetuningStep])

NpNormalDetuning(g, n) == DetuningsOf(NpStates(g, n))

\* -------------------------------------------------------------- the LCG
\* The 64-bit state is eight bytes, least significant first.
SCL_A == <<45, 127, 149, 76, 45, 244, 81, 88>>
SCL_C == <<79, 129, 103, 247, 126, 123, 5, 20>>
SCL_SEED0 == <<190, 186, 254, 202, 239, 190, 173, 222>>

RECURSIVE Conv(_, _, _)
\* the byte products of A * s that land on byte n: A[1]*s[n] + ... + A[i]*s[n+1-i]
Conv(s, n, i) == IF i = 0 THEN 0 ELSE SCL_A[i] * s[n + 1 - i] + Conv(s, n, i - 1)

RECURSIVE LcgLimbs(_, _, _)
\* bytes n..8 of (A * s + C) mod 2^64; t is byte n's column sum with the carry in
LcgLimbs(s, n, t) ==
    IF n = 8 THEN <<t % 256>>
    ELSE <<t % 256>> \o LcgLimbs(s, n + 1, Conv(s, n + 1, n + 1) + SCL_C[n + 1] + t \div 256)

\* a recurrence without the increment: state <- a * state mod 2^64
LcgNextNoIncrement(s) == LcgLimbs(s, 1, Conv(s, 1, 1))

\* self._scl_seed = (A * self._scl_seed + C) % M
LcgNext(s) == LcgLimbs(s, 1, Conv(s, 1, 1) + SCL_C[1])

\* out[k] = seed / 2^64 - 0.5, to the midpoint of its eighth of the interval:
\* the value is PertNum / 8 with PertNum in {-3, -1, 1, 3}
PertNum(s) == 2 * (s[8] \div 64) - 3

RECURSIVE SclSeeds(_, _)
RECURSIVE SclSeedsFrom(_, _)
SclSeedsFrom(s1, n) == <<s1>> \o SclSeeds(s1, n - 1)

\* the n successive LCG states after s
SclSeeds(s, n) == IF n <= 0 THEN <<>> ELSE SclSeedsFrom(LcgNext(s), n)

BatchOf(s, ss) ==
    [out |-> Array([k \in 1..Len(ss) |-> PertNum(ss[k])]),
     seed |-> IF ss = <<>> THEN s ELSE ss[Len(ss)]]

\* _scl_next_batch(n): the n values drawn and the seed left behind
SclNextBatch(s, n) == BatchOf(s, SclSeeds(s, n))

\* ------------------------------------------------------ resonator weights
Binom6 == <<1, 6, 15, 20, 15, 6, 1>>

\* sqrt(T) for T = 1 / (1 + x^2), by |x| in units of 1 / XOne.  T is positive
\* for every finite x, so the amplitude is kept at least one unit: 0 stands
\* for an amplitude that is exactly 0.
LorentzTable ==
    Array([i \in 1..(WOne * XOne + 1) |->
              IF i - 1 >= WOne * XOne THEN 1
              ELSE Sqrt((WOne * WOne * XOne * XOne) \div (XOne * XOne + (i - 1) * (i - 1)))])

LorentzAmp(x) == IF Abs(x) > WOne * XOne THEN 1 ELSE LorentzTable[Abs(x) + 1]

\* sqrt(T_k) for moment k (0..6) of a resonator at wavelength r:
\*   lam_k = lam + (k - 3) * lam / (2Q),   delta = (lam_k - r) / r,
\*   delta / HWHM = 2Q * (lam_k - r) / r = (2Q*lam + (k-3)*lam - 2Q*r) / r
\* r = 0 divides by zero in numpy: delta is infinite, T = 0 (lam_k is never 0
\* for the Q and probe values used).
MomentAmp(r, lam, Q, k) ==
    IF r = 0 THEN 0
    ELSE LorentzAmp(Quot((2 * Q * lam + (k - 3) * lam - 2 * Q * r) * XOne, r))

Clip(v, lo, hi) == IF v < lo THEN lo ELSE IF v > hi THEN hi ELSE v

\* one entry of _update_resonator_weights: dot(binom_w, amp) clipped to [0, 1]
WeightOf(r, lam, Q) ==
    Clip(SumSeq([k \in 1..7 |-> Binom6[k] * MomentAmp(r, lam, Q, k - 1)]) \div 64, 0, WOne)

\* _update_resonator_weights: the weights of a whole wavelength array
UpdateResonatorWeights(res, lam, Q) ==
    Array([k \in 1..Len(res) |-> WeightOf(res[k], lam, Q)])

RECURSIVE AmplitudeTotal(_, _, _, _)
\* the loop "for k in range(M + 1)" of amplitude_weight, from moment k on, with
\* the default moment_order M = 6: the sum of comb(M, k) * amp_k (norm = 2^M
\* is divided out at the end)
AmplitudeTotal(r, lam, Q, k) ==
    IF k > 6 THEN 0
    ELSE Binom6[k + 1] * MomentAmp(r, lam, Q, k) + AmplitudeTotal(r, lam, Q, k + 1)

\* RingResonator.amplitude_weight(probe_wavelength) of a resonator with
\* resonance_wavelength r and quality_factor Q.  Its operands are Python
\* floats: Q = 0 or r = 0 raises ZeroDivisionError.
amplitude_weight(r, Q, probe_wavelength) ==
    IF Q = 0 \/ r = 0 THEN [status |-> "error", value |-> 0]
    ELSE [status |-> "ok",
          value |-> Clip(AmplitudeTotal(r, probe_wavelength, Q, 0) \div 64, 0, WOne)]

\* ------------------------------------------------------- the index table
RECURSIVE BuildFrom(_, _, _, _, _)
\* the nested loops of _build_mzi_indices from position (i, j), with both breaks
BuildFrom(size, num, i, j, acc) ==
    IF i >= size THEN acc
    ELSE IF j >= size
         THEN IF Len(acc) = num THEN acc ELSE BuildFrom(size, num, i + 1, i + 2, acc)
         ELSE LET acc2 == Append(acc, <<i, j>>)
              IN IF Len(acc2) = num THEN acc2 ELSE BuildFrom(size, num, i, j + 1, acc2)

\* a table builder whose inner loop starts at j = i instead of j = i + 1
BuildMziIndicesFromDiagonal(size, num) == BuildFrom(size, num, 0, 0, <<>>)

\* _build_mzi_indices: the sequence of (i, j) pairs (rows[k], cols[k])
BuildMziIndices(size, num) == BuildFrom(size, num, 0, 1, <<>>)

\* int(np.floor(np.sqrt(n)))
FloorSqrt(n) == CHOOSE b \in 0..(n + 1) : b * b <= n /\ (b + 1) * (b + 1) > n

CeilSqrt(n) == CHOOSE b \in 0..(n + 1) : b * b >= n /\ (b = 0 \/ (b - 1) * (b - 1) < n)

\* ------------------------------------------------------------ construction
\* PhotonicMatrixMultiplier.__init__, drawing from generator state g.
\* q_factor = 0 raises ZeroDivisionError in _update_resonator_weights, after
\* the three np.random calls; nothing else is checked.
NewMesh(size, num, q_factor, probe_wavelength, theta, phi, res, pairs, bins) ==
    [size |-> size, num_mzi |-> num,
     probe_wavelength |-> probe_wavelength, q_factor |-> q_factor,
     theta |-> theta, phi |-> phi,
     theta_under |-> Array([k \in 1..Len(theta) |-> FALSE]),
     mzi_i |-> Array([k \in 1..Len(pairs) |-> pairs[k][1]]),
     mzi_j |-> Array([k \in 1..Len(pairs) |-> pairs[k][2]]),
     res_wavelengths |-> res,
     resonators |-> res,
     resonator_weights |-> UpdateResonatorWeights(res, probe_wavelength, q_factor),
     scl_bins |-> bins,
     scl_bin_ids |-> Array([k \in 1..num |-> (k - 1) % bins]),
     scl_seed |-> SCL_SEED0,
     scl_loss_history |-> <<>>]

NewDrawn(size, num, q_factor, probe_wavelength, theta, phi, det, g3) ==
    IF q_factor = 0
    THEN [status |-> "error", np |-> g3]
    ELSE [status |-> "ok", np |-> g3,
          mesh |-> NewMesh(size, num, q_factor, probe_wavelength, theta, phi,
                           Array([k \in 1..num |-> probe_wavelength + det[k]]),
                           BuildMziIndices(size, num),
                           IF CeilSqrt(num) < 1 THEN 1 ELSE CeilSqrt(num))]

NewSized(size, num, q_factor, probe_wavelength, g) ==
    NewDrawn(size, num, q_factor, probe_wavelength,
             NpUniformAngles(g, num),
             NpUniformAngles(NpAfter(g, num), num),
             NpNormalDetuning(NpAfter(g, 2 * num), num),
             NpAfter(g, 3 * num))

New(size, q_factor, probe_wavelength, g) ==
    NewSized(size, (size * (size - 1)) \div 2, q_factor, probe_wavelength, g)

\* ------------------------------------------------------------ forward pass
\* v[i] of a numpy vector (0-based i); an index past the end raises IndexError
InRange(v, i) == 0 <= i /\ i < Len(v)

\* complex scaled by a weight: state[i] * w
Scale(z, w) == <<Quot(z[1] * w, WOne), Quot(z[2] * w, WOne)>>

\* one MZI written in place: state[j] reads the state[i] just stored
MixInPlace(state, i, j, c, sre, sim, ai, aj) ==
    [state EXCEPT
        ![i + 1] = <<Quot(c * ai[1] - (sre * aj[1] - sim * aj[2]), TrigOne),
                     Quot(c * ai[2] - (sre * aj[2] + sim * aj[1]), TrigOne)>>,
        ![j + 1] = <<Quot(sre * Quot(c * ai[1] - (sre * aj[1] - sim * aj[2]), TrigOne)
                          + sim * Quot(c * ai[2] - (sre * aj[2] + sim * aj[1]), TrigOne)
                          + c * aj[1], TrigOne),
                     Quot(sre * Quot(c * ai[2] - (sre * aj[2] + sim * aj[1]), TrigOne)
                          - sim * Quot(c * ai[1] - (sre * aj[1] - sim * aj[2]), TrigOne)
                          + c * aj[2], TrigOne)>>]

\* one MZI: state[i] = c*ai - s*aj; state[j] = conj(s)*ai + c*aj, with
\* c = cos(theta), s = sin(theta) * exp(1j * phi); both read the old ai, aj
Mix(state, i, j, c, sre, sim, ai, aj) ==
    [state EXCEPT
        ![i + 1] = <<Quot(c * ai[1] - (sre * aj[1] - sim * aj[2]), TrigOne),
                     Quot(c * ai[2] - (sre * aj[2] + sim * aj[1]), TrigOne)>>,
        ![j + 1] = <<Quot(sre * ai[1] + sim * ai[2] + c * aj[1], TrigOne),
                     Quot(sre * ai[2] - sim * ai[1] + c * aj[2], TrigOne)>>]

\* an MZI with the roles of cos(theta) and sin(theta) exchanged
RotateCrossed(state, i, j, th, ph, ai, aj) ==
    Mix(state, i, j, Sin(th), Quot(Cos(th) * Cos(ph), TrigOne),
        Quot(Cos(th) * Sin(ph), TrigOne), ai, aj)

Rotate(state, i, j, th, ph, ai, aj) ==
    Mix(state, i, j, Cos(th), Quot(Sin(th) * Cos(ph), TrigOne),
        Quot(Sin(th) * Sin(ph), TrigOne), ai, aj)

RECURSIVE MeshPass(_, _, _, _)
\* the loop "for k in range(self.num_mzi)" of both multiply methods, from
\* element k (1-based) on; weighted selects multiply_resonator_weighted
MeshPass(M, state, k, weighted) ==
    IF k > M.num_mzi THEN [status |-> "ok", value |-> state]
    ELSE IF k > Len(M.mzi_i) \/ ~InRange(state, M.mzi_i[k]) \/ ~InRange(state, M.mzi_j[k])
    THEN [status |-> "error", value |-> <<>>]
    ELSE MeshPass(M,
                  Rotate(state, M.mzi_i[k], M.mzi_j[k], M.theta[k], M.phi[k],
                         IF weighted THEN Scale(state[M.mzi_i[k] + 1], M.resonator_weights[k])
                                     ELSE state[M.mzi_i[k] + 1],
                         IF weighted THEN Scale(state[M.mzi_j[k] + 1], M.resonator_weights[k])
                                     ELSE state[M.mzi_j[k] + 1]),
                  k + 1, weighted)

\* multiply(vector)
multiply(M, vector) == MeshPass(M, vector, 1, FALSE)

\* multiply_resonator_weighted(vector)
multiply_resonator_weighted(M, vector) == MeshPass(M, vector, 1, TRUE)

\* ---------------------------------------------------------- encode_matrix
\* A matrix is a sequence of rows of entries [arg, mag]: np.angle(U[i, j]) in
\* angle units and np.abs(U[i, j]) in angle units (radians rescaled).
RECURSIVE EncodeFrom(_, _, _, _, _)
\* the nested loops of encode_matrix from (i, j) with idx elements written;
\* U[i, j] outside the matrix raises IndexError with the earlier writes kept
EncodeFrom(M, U, i, j, idx) ==
    IF i >= M.size THEN [status |-> "ok", mesh |-> M]
    ELSE IF j >= M.size THEN EncodeFrom(M, U, i + 1, i + 2, idx)
    ELSE IF idx >= M.num_mzi THEN EncodeFrom(M, U, i, j + 1, idx)
    ELSE IF i >= Len(U) \/ j >= Len(U[i + 1]) THEN [status |-> "error", mesh |-> M]
    ELSE EncodeFrom([M EXCEPT !.theta[idx + 1] = U[i + 1][j + 1].arg,
                              !.theta_under[idx + 1] = U[i + 1][j + 1].under,
                              !.phi[idx + 1] = Clip(U[i + 1][j + 1].mag, 0, TwoPi \div 4)],
                    U, i, j + 1, idx + 1)

\* encode_matrix reading U[j, i] where the code reads U[i, j]
encode_matrix_transposed(M, U) ==
    EncodeFrom(M, [j \in 1..(IF U = <<>> THEN 0 ELSE Len(U[1])) |->
                      [i \in 1..Len(U) |-> U[i][j]]],
               0, 1, 0)

encode_matrix(M, U) == EncodeFrom(M, U, 0, 1, 0)

\* ------------------------------------------------------------- scl_update
\* target.astype(complex) - predicted.astype(complex), with numpy broadcasting:
\* equal lengths, or one operand of length 1; anything else raises ValueError
CanSubtract(t, p) == Len(t) = Len(p) \/ Len(t) = 1 \/ Len(p) = 1

Residual(t, p) ==
    LET n == IF Len(t) >= Len(p) THEN Len(t) ELSE Len(p)
        T(k) == IF Len(t) = 1 THEN t[1] ELSE t[k]
        P(k) == IF Len(p) = 1 THEN p[1] ELSE p[k]
    IN [k \in 1..n |-> <<T(k)[1] - P(k)[1], T(k)[2] - P(k)[2]>>]

\* sum of |r_k|^2
SumAbs2(r) == SumSeq([k \in 1..Len(r) |-> r[k][1] * r[k][1] + r[k][2] * r[k][2]])

\* an update that also records its rms in the stored loss history
SclWriteLogged(M, rms, seed, theta, res) ==
    [status |-> "ok", value |-> rms,
     mesh |-> [M EXCEPT !.scl_seed = seed,
                        !.theta = theta,
                        !.theta_under = Array([k \in 1..Len(theta) |-> FALSE]),
                        !.res_wavelengths = res,
                        !.resonators = res,
                        !.resonator_weights =
                            UpdateResonatorWeights(res, M.probe_wavelength, M.q_factor),
                        !.scl_loss_history = Append(M.scl_loss_history, rms)]]

\* a write-back that leaves the cached weights as they were
SclWriteStale(M, rms, seed, theta, res) ==
    [status |-> "ok", value |-> rms,
     mesh |-> [M EXCEPT !.scl_seed = seed,
                        !.theta = theta,
                        !.theta_under = Array([k \in 1..Len(theta) |-> FALSE]),
                        !.res_wavelengths = res,
                        !.resonators = res]]

\* the state written by scl_update once the steps are known
SclWrite(M, rms, seed, theta, res) ==
    [status |-> "ok", value |-> rms,
     mesh |-> [M EXCEPT !.scl_seed = seed,
                        !.theta = theta,
                        !.theta_under = Array([k \in 1..Len(theta) |-> FALSE]),
                        !.res_wavelengths = res,
                        !.resonators = res,
                        !.resonator_weights =
                            UpdateResonatorWeights(res, M.probe_wavelength, M.q_factor)]]

\* x % (2 * np.pi) on float64, for x on the angle grid or (under) a negative
\* float closer to the grid value than half a unit in the last place of 2 pi:
\* numpy takes fmod(x, 2 pi) and adds 2 pi to a negative remainder, and for
\* such an x just under 0 the sum rounds to 2 pi itself
FloatMod(x, under) == IF under /\ x = 0 THEN TwoPi ELSE x % TwoPi

\* self.theta += step; self.theta %= 2 pi; self._res_wavelengths += step * 0.01
SclStep(M, rms, seed, step) ==
    SclWrite(M, rms, seed,
             Array([k \in 1..M.num_mzi |->
                       FloatMod(M.theta[k] + step[k], M.theta_under[k] /\ step[k] = 0)]),
             Array([k \in 1..M.num_mzi |-> M.res_wavelengths[k] + step[k]]))

\* an update that keeps the seed where it was when there is no residual
SclDrawnOnResidual(M, lr, rms, residual_norm, batch) ==
    SclStep(M, rms, IF residual_norm = 0 THEN M.scl_seed ELSE batch.seed,
            Array([k \in 1..M.num_mzi |->
                      lr * batch.out[M.scl_bin_ids[k] + 1] * residual_norm]))

\* step = lr * deltas[self._scl_bin_ids] * residual_norm
SclDrawn(M, lr, rms, residual_norm, batch) ==
    SclStep(M, rms, batch.seed,
            Array([k \in 1..M.num_mzi |->
                      lr * batch.out[M.scl_bin_ids[k] + 1] * residual_norm]))

SclResidual(M, lr, sum2, n) ==
    SclDrawn(M, lr, Sqrt(sum2 \div n), Sqrt(sum2), SclNextBatch(M.scl_seed, M.scl_bins))

\* scl_update(target, predicted, lr): status, the mesh afterwards, the rms returned
scl_update(M, target, predicted, lr) ==
    IF ~CanSubtract(target, predicted) THEN [status |-> "error", mesh |-> M, value |-> 0]
    ELSE SclResidual(M, lr, SumAbs2(Residual(target, predicted)),
                     IF Len(target) >= Len(predicted) THEN Len(target) ELSE Len(predicted))

\* -------------------------------------------------------------- train_scl
Swap(x, a, b) == [x EXCEPT ![a] = x[b], ![b] = x[a]]

RECURSIVE ShuffleFrom(_, _, _)
\* np.random.shuffle(idx_arr): for i = n-1 .. 1, swap x[i] with x[j], j drawn in 0..i
ShuffleFrom(x, g, i) ==
    IF i < 1 THEN [arr |-> x, np |-> g]
    ELSE LET g1 == NpNext(g)
             j  == (g1 \div 2) % (i + 1)
         IN ShuffleFrom(Swap(x, i + 1, j + 1), g1, i - 1)

NpShuffle(x, g) == ShuffleFrom(x, g, Len(x) - 1)

RECURSIVE TrainSamples(_, _, _, _, _, _, _)
RECURSIVE TrainUpdated(_, _, _, _, _, _, _, _)
RECURSIVE TrainPredicted(_, _, _, _, _, _, _, _, _)

\* a loop that goes on from the mesh as it was before the sample's update
TrainUpdatedDropped(M, vecs, tgts, lr, idx_arr, pos, epoch_rms, u) ==
    IF u.status = "error"
    THEN [status |-> "error", mesh |-> M, epoch_rms |-> epoch_rms]
    ELSE TrainSamples(M, vecs, tgts, lr, idx_arr, pos + 1, epoch_rms + u.value)

\* after scl_update on one sample
TrainUpdated(M, vecs, tgts, lr, idx_arr, pos, epoch_rms, u) ==
    IF u.status = "error"
    THEN [status |-> "error", mesh |-> M, epoch_rms |-> epoch_rms]
    ELSE TrainSamples(u.mesh, vecs, tgts, lr, idx_arr, pos + 1, epoch_rms + u.value)

\* after multiply_resonator_weighted on one sample; targets[idx] may not exist
TrainPredicted(M, vecs, tgts, lr, idx_arr, pos, epoch_rms, idx, pred) ==
    IF pred.status = "error" \/ idx >= Len(tgts)
    THEN [status |-> "error", mesh |-> M, epoch_rms |-> epoch_rms]
    ELSE TrainUpdated(M, vecs, tgts, lr, idx_arr, pos, epoch_rms,
                      scl_update(M, tgts[idx + 1], pred.value, lr))

\* "for idx in idx_arr" from position pos on; an exception leaves the mesh as the
\* samples before it made it
TrainSamples(M, vecs, tgts, lr, idx_arr, pos, epoch_rms) ==
    IF pos > Len(idx_arr) THEN [status |-> "ok", mesh |-> M, epoch_rms |-> epoch_rms]
    ELSE TrainPredicted(M, vecs, tgts, lr, idx_arr, pos, epoch_rms, idx_arr[pos],
                        multiply_resonator_weighted(M, vecs[idx_arr[pos] + 1]))

RECURSIVE TrainEpochs(_, _, _, _, _, _, _, _)
RECURSIVE TrainEpochDone(_, _, _, _, _, _, _, _)
RECURSIVE TrainShuffled(_, _, _, _, _, _, _)

\* loss_history.append(epoch_rms / n_samples): an empty sample set divides by zero
TrainEpochDone(g, vecs, tgts, lr, idx_arr, epochs, loss_history, ep) ==
    IF ep.status = "error" \/ Len(vecs) = 0
    THEN [status |-> "error", np |-> g, value |-> <<>>, mesh |-> ep.mesh]
    ELSE TrainEpochs(ep.mesh, g, vecs, tgts, lr, idx_arr, epochs - 1,
                     Append(loss_history, ep.epoch_rms \div Len(vecs)))

TrainShuffled(M, vecs, tgts, lr, epochs, loss_history, sh) ==
    TrainEpochDone(sh.np, vecs, tgts, lr, sh.arr, epochs, loss_history,
                   TrainSamples(M, vecs, tgts, lr, sh.arr, 1, 0))

\* "for _ in range(epochs)", then self.scl_loss_history = loss_history
TrainEpochs(M, g, vecs, tgts, lr, idx_arr, epochs, loss_history) ==
    IF epochs <= 0
    THEN [status |-> "ok", np |-> g, value |-> loss_history,
          mesh |-> [M EXCEPT !.scl_loss_history = loss_history]]
    ELSE TrainShuffled(M, vecs, tgts, lr, epochs, loss_history, NpShuffle(idx_arr, g))

\* a training loop that always runs at least one epoch
train_scl_at_least_once(M, g, vecs, tgts, epochs, lr) ==
    TrainEpochs(M, g, vecs, tgts, lr, Array([k \in 1..Len(vecs) |-> k - 1]),
                IF epochs <= 0 THEN 1 ELSE epochs, <<>>)

\* train_scl(training_vectors, targets, epochs, lr) with np.random in state g
train_scl(M, g, vecs, tgts, epochs, lr) ==
    TrainEpochs(M, g, vecs, tgts, lr, Array([k \in 1..Len(vecs) |-> k - 1]), epochs, <<>>)

\* RingResonator.tune_to on self.resonators[k]
tune_to(M, k, target_wavelength) == [M EXCEPT !.resonators[k] = target_wavelength]

\* ------------------------------------------------------------ read calls
\* What a caller holds after a call that returned r: the result, the mesh, and
\* the array it passed in.  state = vector.astype(complex) is a fresh copy and
\* the loop writes state[i], state[j] only, so the caller's array keeps its
\* entries; no attribute of self is assigned.
ReturnedInPlace(r, M, vector) ==
    [status |-> r.status, value |-> r.value, mesh |-> M,
     vector |-> IF r.status = "ok" THEN r.value ELSE vector]

Returned(r, M, vector) ==
    [status |-> r.status, value |-> r.value, mesh |-> M, vector |-> vector]

\* np.mean(w) of a non-empty array, in weight units
Mean(w) == SumSeq(w) \div Len(w)

SqDev(w, mu) == Array([k \in 1..Len(w) |-> (w[k] - mu) * (w[k] - mu)])

RECURSIVE MinOf(_)
MinOf(w) == IF Len(w) = 1 THEN w[1]
            ELSE IF w[1] <= MinOf(Tail(w)) THEN w[1] ELSE MinOf(Tail(w))

RECURSIVE MaxOf(_)
MaxOf(w) == IF Len(w) = 1 THEN w[1]
            ELSE IF w[1] >= MaxOf(Tail(w)) THEN w[1] ELSE MaxOf(Tail(w))

\* compute_throughput(): base_tops = size^2 / (0.01e-9) / 1e12 = 100 * size^2,
\* boost = 1 + (1 - mean_w) * sqrt(num_mzi); the value is in units of 1 / WOne
\* of a TOPS times 100, and nan when there is no resonator
Throughput(M, mean_w) ==
    M.size * M.size * (WOne + ((WOne - mean_w) * Sqrt(M.num_mzi * 10000)) \div 100)

\* np.mean of an empty array is nan (with a warning), and so is the result
compute_throughput(M) ==
    [status |-> "ok", mesh |-> M,
     value |-> IF M.resonator_weights = <<>> THEN "nan"
               ELSE Throughput(M, Mean(M.resonator_weights))]

\* resonator_stats(): np.min of an empty array raises ValueError
Stats(M, w, mu) ==
    [mean_weight |-> mu, std_weight |-> Sqrt(Mean(SqDev(w, mu))),
     min_weight |-> MinOf(w), max_weight |-> MaxOf(w),
     q_factor |-> M.q_factor, num_resonators |-> M.num_mzi,
     probe_wavelength_nm |-> M.probe_wavelength]

resonator_stats(M) ==
    IF M.resonator_weights = <<>>
    THEN [status |-> "error", value |-> <<>>, mesh |-> M]
    ELSE [status |-> "ok", mesh |-> M,
          value |-> Stats(M, M.resonator_weights, Mean(M.resonator_weights))]

\* ------------------------------------------------------------------ inputs
\* np.random.seed(s) values a caller uses
NpSeeds == {0, 7}
InitSizes == {2, 3}

\* constructor arguments: valid ones for every size up to MaxSize, and the ones
\* section 7 of the specification calls invalid
GoodConfigs == {[size |-> n, q_factor |-> 50, probe_wavelength |-> 4000] : n \in 2..MaxSize}
BadConfigs ==
    {[size |-> 1, q_factor |-> 50, probe_wavelength |-> 4000],
     [size |-> -1, q_factor |-> 50, probe_wavelength |-> 4000],
     [size |-> 2, q_factor |-> 0, probe_wavelength |-> 4000],
     [size |-> 2, q_factor |-> -50, probe_wavelength |-> 4000],
     [size |-> 2, q_factor |-> 50, probe_wavelength |-> -4000]}
Configs == GoodConfigs \cup BadConfigs

E0(n) == [k \in 1..n |-> IF k = 1 THEN <<AmpOne, 0>> ELSE <<0, 0>>]
Ones(n) == [k \in 1..n |-> <<AmpOne, 0>>]

\* the vector length a caller of mesh M means to pass
NominalLen(M) == IF M.size < 1 THEN 1 ELSE M.size

\* vectors of the right length, one shorter and one longer
VectorsFor(M) ==
    LET n == NominalLen(M)
    IN {E0(n), Ones(n), E0(n + 1)} \cup (IF n > 1 THEN {E0(n - 1)} ELSE {})

UpdateArgs(t, p, lr) == [target |-> t, predicted |-> p, lr |-> lr]

\* scl_update arguments: a residual (with lr 1 and lr 0), no residual, and
\* unequal lengths
UpdatesFor(M) ==
    LET n == NominalLen(M)
    IN {UpdateArgs(Ones(n), E0(n), 1), UpdateArgs(Ones(n), E0(n), 0),
        UpdateArgs(E0(n), E0(n), 1), UpdateArgs(Ones(n + 1), E0(n), 1)}
       \cup (IF n > 1 THEN {UpdateArgs(Ones(n), E0(n - 1), 1)} ELSE {})

EpochChoices == {0, 1, 2}

\* training batches [vecs, tgts]: well-formed ones with two samples and one,
\* fewer targets than vectors, a vector (and its target) too long, a vector too
\* short, and the empty batch
BatchesFor(M) ==
    LET n == NominalLen(M)
    IN {[vecs |-> <<E0(n), Ones(n)>>, tgts |-> <<Ones(n), E0(n)>>],
        [vecs |-> <<Ones(n)>>, tgts |-> <<E0(n)>>],
        [vecs |-> <<E0(n), Ones(n)>>, tgts |-> <<Ones(n)>>],
        [vecs |-> <<E0(n), E0(n + 1)>>, tgts |-> <<Ones(n), Ones(n + 1)>>],
        [vecs |-> <<>>, tgts |-> <<>>]}
       \cup (IF n > 1
             THEN {[vecs |-> <<E0(n), E0(n - 1)>>, tgts |-> <<Ones(n), Ones(n - 1)>>]}
             ELSE {})

\* a matrix entry by np.angle and np.abs of it; under: the angle is a negative
\* float just under the grid value (np.angle(1 - 1e-20j) is -1e-20)
Entry(a, g) == [arg |-> a, mag |-> g, under |-> FALSE]
EntryUnder(a, g) == [arg |-> a, mag |-> g, under |-> TRUE]

\* a matrix whose entries lie just under the positive real axis
NearAxisFor(M) ==
    {[i \in 1..NominalLen(M) |-> [j \in 1..NominalLen(M) |-> EntryUnder(0, 4)]]}

\* matrices for encode_matrix: all zeros; entries with negative and large
\* angles and magnitudes; and one with a row missing
MatricesFor(M) ==
    LET n == NominalLen(M)
    IN {[i \in 1..n |-> [j \in 1..n |-> Entry(0, 0)]],
        [i \in 1..n |-> [j \in 1..n |-> Entry(i - 2 * j, 3 * j)]]}
       \cup (IF n > 1
             THEN {[i \in 1..(n - 1) |-> [j \in 1..n |-> Entry(j, i)]]}
             ELSE {})

\* constructor arguments with a low and a high quality factor
QConfigs ==
    {[size |-> n, q_factor |-> q, probe_wavelength |-> 4000] : n \in 2..MaxSize, q \in {50, 1000}}

\* the learning rates for which the step of the next scl_update with residual
\* norm residual_norm moves some resonance wavelength of M to exactly 0
CancellingRates(M, residual_norm, out) ==
    {-Quot(M.res_wavelengths[k], out[M.scl_bin_ids[k] + 1] * residual_norm) :
        k \in {i \in 1..M.num_mzi :
                  M.res_wavelengths[i] % Abs(out[M.scl_bin_ids[i] + 1] * residual_norm) = 0}}

\* scl_update arguments with a residual of norm 1: learning rate 1, and the
\* rates a caller can choose to cancel a wavelength
TunedUpdatesFor(M) ==
    {UpdateArgs(E0(NominalLen(M)), [k \in 1..NominalLen(M) |-> <<0, 0>>], lr) :
        lr \in {1} \cup CancellingRates(M, AmpOne, SclNextBatch(M.scl_seed, M.scl_bins).out)}

\* -------------------------------------------------------------------- state
\* mesh[m]       the object bound to caller variable m
\* np_random     the state of numpy's process-wide generator
\* log           the calls made so far, each with its outcome
\* mesh0, np0    mesh and np_random as they were after the initial constructions
Call(op, m, args, status, value) ==
    [op |-> op, inst |-> m, args |-> args, status |-> status, value |-> value]

\* a script in the style of generate_nature_scl_report.py: seed numpy, build a
\* mesh; seed it again the same way, build another
Init ==
    \E n \in InitSizes :
        /\ mesh = [m \in Inst |-> New(n, 50, 4000, 0).mesh]
        /\ np_random = New(n, 50, 4000, 0).np
        /\ log = <<>>
        /\ mesh0 = mesh
        /\ np0 = np_random

Budget == Len(log) < MaxCalls

Constructed(m, c, r) ==
    /\ mesh' = IF r.status = "ok" THEN [mesh EXCEPT ![m] = r.mesh] ELSE mesh
    /\ np_random' = r.np
    /\ log' = Append(log, Call("construct", m, c, r.status, 0))
    /\ UNCHANGED <<mesh0, np0>>

\* m = PhotonicMatrixMultiplier(size, q_factor, probe_wavelength); when the
\* constructor raises, m keeps the object it was bound to
Construct(m) ==
    /\ Budget
    /\ \E c \in Configs :
          Constructed(m, c, New(c.size, c.q_factor, c.probe_wavelength, np_random))

\* np.random.seed(s), called by the script
SeedNumpy ==
    /\ Budget
    /\ \E s \in NpSeeds :
          /\ np_random' = s
          /\ log' = Append(log, Call("seed", 0, s, "ok", 0))
          /\ UNCHANGED <<mesh, mesh0, np0>>

Encoded(m, U, r) ==
    /\ mesh' = [mesh EXCEPT ![m] = r.mesh]
    /\ log' = Append(log, Call("encode_matrix", m, U, r.status, 0))
    /\ UNCHANGED <<np_random, mesh0, np0>>

EncodeMatrix(m) ==
    /\ Budget
    /\ \E U \in MatricesFor(mesh[m]) : Encoded(m, U, encode_matrix(mesh[m], U))

Multiplied(op, m, v, r) ==
    /\ log' = Append(log, Call(op, m, v, r.status, r.value))
    /\ UNCHANGED <<mesh, np_random, mesh0, np0>>

Multiply(m) ==
    /\ Budget
    /\ \E v \in VectorsFor(mesh[m]) : Multiplied("multiply", m, v, multiply(mesh[m], v))

MultiplyResonatorWeighted(m) ==
    /\ Budget
    /\ \E v \in VectorsFor(mesh[m]) :
          Multiplied("multiply_resonator_weighted", m, v,
                     multiply_resonator_weighted(mesh[m], v))

Updated(m, args, r) ==
    /\ mesh' = [mesh EXCEPT ![m] = r.mesh]
    /\ log' = Append(log, Call("scl_update", m, args, r.status, r.value))
    /\ UNCHANGED <<np_random, mesh0, np0>>

SclUpdate(m) ==
    /\ Budget
    /\ \E a \in UpdatesFor(mesh[m]) :
          Updated(m, a, scl_update(mesh[m], a.target, a.predicted, a.lr))

Trained(m, args, r) ==
    /\ mesh' = [mesh EXCEPT ![m] = r.mesh]
    /\ np_random' = r.np
    /\ log' = Append(log, Call("train_scl", m, args, r.status, r.value))
    /\ UNCHANGED <<mesh0, np0>>

TrainScl(m) ==
    /\ Budget
    /\ \E b \in BatchesFor(mesh[m]), e \in EpochChoices :
          Trained(m, [vecs |-> b.vecs, tgts |-> b.tgts, epochs |-> e, lr |-> 1],
                  train_scl(mesh[m], np_random, b.vecs, b.tgts, e, 1))

\* mesh.resonators[k].tune_to(w): the resonator objects are public
TuneTo(m) ==
    /\ Budget
    /\ \E k \in 1..Len(mesh[m].resonators) :
          /\ mesh' = [mesh EXCEPT ![m] = tune_to(mesh[m], k, mesh[m].probe_wavelength)]
          /\ log' = Append(log, Call("tune_to", m, <<k, mesh[m].probe_wavelength>>, "ok", 0))
          /\ UNCHANGED <<np_random, mesh0, np0>>

\* the calls a script makes on one mesh
Next ==
    \/ SeedNumpy
    \/ Construct(1)
    \/ EncodeMatrix(1)
    \/ Multiply(1)
    \/ MultiplyResonatorWeighted(1)
    \/ SclUpdate(1)
    \/ TrainScl(1)
    \/ TuneTo(1)

Spec == Init /\ [][Next]_vars

\* a script that builds and calibrates two meshes in one process
NextPair ==
    \/ SeedNumpy
    \/ \E m \in Inst : Construct(m)
    \/ \E m \in Inst : SclUpdate(m)
    \/ \E m \in Inst : TrainScl(m)

SpecPair == Init /\ [][NextPair]_vars

\* a read call that returned r: the caller rebinds nothing, so the mesh and the
\* array are what the call left them
Read(op, m, v, r) ==
    /\ mesh' = [mesh EXCEPT ![m] = r.mesh]
    /\ log' = Append(log, Call(op, m, v, r.status, [out |-> r.value, vector |-> r.vector]))
    /\ UNCHANGED <<np_random, mesh0, np0>>

ReadMultiply(m) ==
    /\ Budget
    /\ \E v \in VectorsFor(mesh[m]) :
          Read("multiply", m, v, Returned(multiply(mesh[m], v), mesh[m], v))

ReadMultiplyWeighted(m) ==
    /\ Budget
    /\ \E v \in VectorsFor(mesh[m]) :
          Read("multiply_resonator_weighted", m, v,
               Returned(multiply_resonator_weighted(mesh[m], v), mesh[m], v))

Measured(op, m, r) ==
    /\ mesh' = [mesh EXCEPT ![m] = r.mesh]
    /\ log' = Append(log, Call(op, m, <<>>, r.status, [out |-> r.value, vector |-> <<>>]))
    /\ UNCHANGED <<np_random, mesh0, np0>>

ComputeThroughput(m) == Budget /\ Measured("compute_throughput", m, compute_throughput(mesh[m]))

ResonatorStats(m) == Budget /\ Measured("resonator_stats", m, resonator_stats(mesh[m]))

\* a script that configures one mesh and reads from it
NextRead ==
    \/ Construct(1)
    \/ EncodeMatrix(1)
    \/ SclUpdate(1)
    \/ ReadMultiply(1)
    \/ ReadMultiplyWeighted(1)
    \/ ComputeThroughput(1)
    \/ ResonatorStats(1)

SpecRead == Init /\ [][NextRead]_vars

\* a script that calibrates one mesh and uses it in between
NextRng ==
    \/ SclUpdate(1)
    \/ TrainScl(1)
    \/ EncodeMatrix(1)
    \/ MultiplyResonatorWeighted(1)
    \/ TuneTo(1)

SpecRng == Init /\ [][NextRng]_vars

ConstructQ(m) ==
    /\ Budget
    /\ \E c \in QConfigs :
          Constructed(m, c, New(c.size, c.q_factor, c.probe_wavelength, np_random))

SclUpdateTuned(m) ==
    /\ Budget
    /\ \E a \in TunedUpdatesFor(mesh[m]) :
          Updated(m, a, scl_update(mesh[m], a.target, a.predicted, a.lr))

Weighed(m, k, r) ==
    /\ log' = Append(log, Call("amplitude_weight", m,
                               [k |-> k, resonance_wavelength |-> mesh[m].resonators[k],
                                quality_factor |-> mesh[m].q_factor,
                                probe_wavelength |-> mesh[m].probe_wavelength],
                               r.status, r.value))
    /\ UNCHANGED <<mesh, np_random, mesh0, np0>>

\* mesh.resonators[k].amplitude_weight(mesh.probe_wavelength)
AmplitudeWeight(m) ==
    /\ Budget
    /\ \E k \in 1..Len(mesh[m].resonators) :
          Weighed(m, k, amplitude_weight(mesh[m].resonators[k], mesh[m].q_factor,
                                         mesh[m].probe_wavelength))

\* a script that builds a mesh, shifts and tunes its resonators, and evaluates
\* their weights
NextWeights ==
    \/ ConstructQ(1)
    \/ SclUpdateTuned(1)
    \/ TuneTo(1)
    \/ AmplitudeWeight(1)

SpecWeights == Init /\ [][NextWeights]_vars

\* out[k] = (self._scl_seed / self._SCL_M) - 0.5 in float64, at the ends of the
\* range: the quotient has a 53-bit mantissa (ties to even), so it is 1.0 for
\* seed >= 2^64 - 2^10 and the difference is then +0.5; and the difference
\* rounds to -0.5 for seed <= 2^9.  Everything else is strictly between.
PertValue(s) ==
    IF (\A b \in 3..8 : s[b] = 0) /\ s[1] + 256 * s[2] <= 512 THEN "-0.5"
    ELSE IF (\A b \in 3..8 : s[b] = 255) /\ s[1] + 256 * s[2] >= 65536 - 1024 THEN "+0.5"
    ELSE "inside"

\* States of _scl_seed.  The recurrence has full period 2^64 (c is odd and
\* a - 1 is a multiple of 4), so every 64-bit value is a state it reaches from
\* the fixed seed: here the fixed seed itself, the states whose successors are
\* 0 and 2^64 - 1, and 0.
SeedStates ==
    {SCL_SEED0, <<21, 80, 83, 33, 182, 181, 149, 153>>, <<112, 39, 181, 238, 46, 198, 253, 216>>, <<0, 0, 0, 0, 0, 0, 0, 0>>}

\* meshes as constructed, found at some later point of their perturbation stream
InitSeeded ==
    \E n \in InitSizes, s \in SeedStates :
        /\ mesh = [m \in Inst |-> [New(n, 50, 4000, 0).mesh EXCEPT !.scl_seed = s]]
        /\ np_random = New(n, 50, 4000, 0).np
        /\ log = <<>>
        /\ mesh0 = mesh
        /\ np0 = np_random

NextSeeded ==
    \/ SclUpdate(1)
    \/ TrainScl(1)

SpecSeeded == InitSeeded /\ [][NextSeeded]_vars

\* matrices that are not N x N: a column missing, and a row and a column missing
ShortMatricesFor(M) ==
    {[i \in 1..NominalLen(M) |-> [j \in 1..(NominalLen(M) - 1) |-> Entry(i - 2 * j, 3 * j)]],
     [i \in 1..(NominalLen(M) - 1) |-> [j \in 1..(NominalLen(M) - 1) |-> Entry(j, i)]]}

\* mesh.encode_matrix(U) for a U that is too small
EncodeShort(m) ==
    /\ Budget
    /\ \E U \in ShortMatricesFor(mesh[m]) : Encoded(m, U, encode_matrix(mesh[m], U))

\* mesh.encode_matrix(U) for a U with entries just under the real axis
EncodeNearAxis(m) ==
    /\ Budget
    /\ \E U \in NearAxisFor(mesh[m]) : Encoded(m, U, encode_matrix(mesh[m], U))

\* a script that encodes matrices and calibrates
NextAngles ==
    \/ EncodeMatrix(1)
    \/ EncodeNearAxis(1)
    \/ EncodeShort(1)
    \/ SclUpdate(1)

SpecAngles == Init /\ [][NextAngles]_vars

\* constructor arguments for meshes of up to MaxMeshSize channels
SizedConfigs ==
    {[size |-> n, q_factor |-> 50, probe_wavelength |-> 4000] : n \in 2..MaxMeshSize}

ConstructSized(m) ==
    /\ Budget
    /\ \E c \in SizedConfigs :
          Constructed(m, c, New(c.size, c.q_factor, c.probe_wavelength, np_random))

\* a script that builds meshes of several sizes
NextSizes ==
    \/ SeedNumpy
    \/ \E m \in Inst : ConstructSized(m)

SpecSizes == Init /\ [][NextSizes]_vars

\* a script that calibrates and trains a mesh and evaluates its resonators
NextAgree ==
    \/ SclUpdateTuned(1)
    \/ TrainScl(1)
    \/ AmplitudeWeight(1)

SpecAgree == Init /\ [][NextAgree]_vars

\* a script that calibrates two meshes, each on its own data, and trains the
\* first
NextStream ==
    \/ \E m \in Inst : SclUpdate(m)
    \/ TrainScl(1)

SpecStream == Init /\ [][NextStream]_vars

\* ------------------------------------------------------- interleaved calls
\* Two threads share mesh 1: one runs scl_update, one runs
\* multiply_resonator_weighted, and the interpreter may switch between them
\* after any statement.  A call in progress is a frame in the log: the line it
\* is about to execute (pc) and its locals (loc).
Frame(op, m, args, pc, loc) ==
    [op |-> op, inst |-> m, args |-> args, status |-> "running", value |-> <<>>,
     pc |-> pc, loc |-> loc]

Running(op) == {i \in 1..Len(log) : log[i].op = op /\ log[i].status = "running"}
At(op, pc) == {i \in Running(op) : log[i].pc = pc}

\* the reads of a weighted multiply in progress overlap an update from now on
MarkOverlap(l) ==
    [i \in 1..Len(l) |->
        IF l[i].op = "multiply_resonator_weighted" /\ l[i].status = "running"
        THEN [l[i] EXCEPT !.loc.overlap = TRUE] ELSE l[i]]

ZeroVector(n) == [k \in 1..n |-> <<0, 0>>]

\* scl_update arguments: a residual, no residual, and unequal lengths
ThreadUpdatesFor(M) ==
    {UpdateArgs(E0(NominalLen(M)), ZeroVector(NominalLen(M)), 1),
     UpdateArgs(E0(NominalLen(M)), E0(NominalLen(M)), 1),
     UpdateArgs(Ones(NominalLen(M) + 1), E0(NominalLen(M)), 1)}

ThreadVectorsFor(M) == {Ones(NominalLen(M)), E0(NominalLen(M) + 1)}

\* a thread calls mesh.scl_update(target, predicted, lr)
BeginUpdate ==
    /\ Budget /\ Running("scl_update") = {}
    /\ \E a \in ThreadUpdatesFor(mesh[1]) :
          log' = Append(MarkOverlap(log),
                        Frame("scl_update", 1, a, "405",
                              [before |-> mesh[1], rms |-> 0, step |-> <<>>, after |-> <<>>]))
    /\ UNCHANGED <<mesh, np_random, mesh0, np0>>

\* step = lr * deltas[self._scl_bin_ids] * residual_norm
StepOf(M, lr, residual_norm, out) ==
    Array([k \in 1..M.num_mzi |-> lr * out[M.scl_bin_ids[k] + 1] * residual_norm])

\* lines 405-416 with the residual's sum of squares and length known
Drew(i, sum2, n, batch) ==
    /\ mesh' = [mesh EXCEPT ![1].scl_seed = batch.seed]
    /\ log' = [log EXCEPT ![i].pc = "417",
                          ![i].loc.rms = Sqrt(sum2 \div n),
                          ![i].loc.step = StepOf(mesh[1], log[i].args.lr, Sqrt(sum2), batch.out)]

\* lines 405-416: the residual, its rms and norm, the B draws (which advance
\* _scl_seed) and the step; a shape mismatch raises at line 405
UpdateDraw ==
    /\ \E i \in At("scl_update", "405") :
          IF ~CanSubtract(log[i].args.target, log[i].args.predicted)
          THEN /\ log' = [log EXCEPT ![i].status = "error", ![i].pc = "done", ![i].value = 0]
               /\ UNCHANGED mesh
          ELSE Drew(i, SumAbs2(Residual(log[i].args.target, log[i].args.predicted)),
                    IF Len(log[i].args.target) >= Len(log[i].args.predicted)
                    THEN Len(log[i].args.target) ELSE Len(log[i].args.predicted),
                    SclNextBatch(mesh[1].scl_seed, mesh[1].scl_bins))
    /\ UNCHANGED <<np_random, mesh0, np0>>

\* line 417: self.theta += step
UpdateTheta ==
    /\ \E i \in At("scl_update", "417") :
          /\ mesh' = [mesh EXCEPT ![1].theta =
                         Array([k \in 1..mesh[1].num_mzi |-> mesh[1].theta[k] + log[i].loc.step[k]]),
                                  ![1].theta_under =
                         Array([k \in 1..mesh[1].num_mzi |->
                                   mesh[1].theta_under[k] /\ log[i].loc.step[k] = 0])]
          /\ log' = [log EXCEPT ![i].pc = "418"]
    /\ UNCHANGED <<np_random, mesh0, np0>>

\* line 418: self.theta %= 2 pi
UpdateThetaMod ==
    /\ \E i \in At("scl_update", "418") :
          /\ mesh' = [mesh EXCEPT ![1].theta =
                         Array([k \in 1..mesh[1].num_mzi |->
                                   FloatMod(mesh[1].theta[k], mesh[1].theta_under[k])]),
                                  ![1].theta_under =
                         Array([k \in 1..mesh[1].num_mzi |-> FALSE])]
          /\ log' = [log EXCEPT ![i].pc = "421"]
    /\ UNCHANGED <<np_random, mesh0, np0>>

\* line 421: self._res_wavelengths += step * 0.01
UpdateWavelengths ==
    /\ \E i \in At("scl_update", "421") :
          /\ mesh' = [mesh EXCEPT ![1].res_wavelengths =
                         Array([k \in 1..mesh[1].num_mzi |->
                                   mesh[1].res_wavelengths[k] + log[i].loc.step[k]])]
          /\ log' = [log EXCEPT ![i].pc = "423"]
    /\ UNCHANGED <<np_random, mesh0, np0>>

\* lines 423-424: every resonator object gets its array entry
UpdateResonators ==
    /\ \E i \in At("scl_update", "423") :
          /\ mesh' = [mesh EXCEPT ![1].resonators = mesh[1].res_wavelengths]
          /\ log' = [log EXCEPT ![i].pc = "426"]
    /\ UNCHANGED <<np_random, mesh0, np0>>

\* an update that returns without recomputing the weights
NotRecomputed(M) == M

\* line 426: self._update_resonator_weights() binds a new weight array
Recomputed(M) ==
    [M EXCEPT !.resonator_weights =
                 UpdateResonatorWeights(M.res_wavelengths, M.probe_wavelength, M.q_factor)]

\* lines 426-427: recompute the weights and return rms
UpdateWeights ==
    /\ \E i \in At("scl_update", "426") :
          /\ mesh' = [mesh EXCEPT ![1] = Recomputed(mesh[1])]
          /\ log' = [log EXCEPT ![i].status = "ok", ![i].pc = "done",
                                ![i].value = log[i].loc.rms,
                                ![i].loc.after = Recomputed(mesh[1])]
    /\ UNCHANGED <<np_random, mesh0, np0>>

\* a thread calls mesh.multiply_resonator_weighted(vector); line 354 copies it
BeginRead ==
    /\ Budget /\ Running("multiply_resonator_weighted") = {}
    /\ \E v \in ThreadVectorsFor(mesh[1]) :
          log' = Append(log,
                        Frame("multiply_resonator_weighted", 1, v, "355",
                              [overlap |-> Running("scl_update") /= {}, state |-> v,
                               w_arr |-> <<>>, c_theta |-> <<>>, s_theta |-> <<>>,
                               phi |-> <<>>]))
    /\ UNCHANGED <<mesh, np_random, mesh0, np0>>

\* line 355: w_arr = self.resonator_weights (the array bound at this moment)
ReadWeights ==
    /\ \E i \in At("multiply_resonator_weighted", "355") :
          log' = [log EXCEPT ![i].pc = "356", ![i].loc.w_arr = mesh[1].resonator_weights]
    /\ UNCHANGED <<mesh, np_random, mesh0, np0>>

\* line 356: c_arr = np.cos(self.theta)
ReadCos ==
    /\ \E i \in At("multiply_resonator_weighted", "356") :
          log' = [log EXCEPT ![i].pc = "357", ![i].loc.c_theta = mesh[1].theta]
    /\ UNCHANGED <<mesh, np_random, mesh0, np0>>

\* line 357: s_arr = np.sin(self.theta) * np.exp(1j * self.phi)
ReadSin ==
    /\ \E i \in At("multiply_resonator_weighted", "357") :
          log' = [log EXCEPT ![i].pc = "358", ![i].loc.s_theta = mesh[1].theta,
                                ![i].loc.phi = mesh[1].phi]
    /\ UNCHANGED <<mesh, np_random, mesh0, np0>>

RECURSIVE LocalPass(_, _, _, _)
\* lines 358-365 on the arrays the call read: c from c_theta, s from s_theta
LocalPass(M, loc, state, k) ==
    IF k > M.num_mzi THEN [status |-> "ok", value |-> state]
    ELSE IF k > Len(M.mzi_i) \/ ~InRange(state, M.mzi_i[k]) \/ ~InRange(state, M.mzi_j[k])
    THEN [status |-> "error", value |-> <<>>]
    ELSE LocalPass(M, loc,
                   Mix(state, M.mzi_i[k], M.mzi_j[k], Cos(loc.c_theta[k]),
                       Quot(Sin(loc.s_theta[k]) * Cos(loc.phi[k]), TrigOne),
                       Quot(Sin(loc.s_theta[k]) * Sin(loc.phi[k]), TrigOne),
                       Scale(state[M.mzi_i[k] + 1], loc.w_arr[k]),
                       Scale(state[M.mzi_j[k] + 1], loc.w_arr[k])),
                   k + 1)

Looped(i, r) ==
    log' = [log EXCEPT ![i].status = r.status, ![i].pc = "done", ![i].value = r.value]

\* lines 358-365: the loop over the elements, and the return
ReadLoop ==
    /\ \E i \in At("multiply_resonator_weighted", "358") :
          Looped(i, LocalPass(mesh[1], log[i].loc, log[i].loc.state, 1))
    /\ UNCHANGED <<mesh, np_random, mesh0, np0>>

NextThreads ==
    \/ BeginUpdate
    \/ UpdateDraw
    \/ UpdateTheta
    \/ UpdateThetaMod
    \/ UpdateWavelengths
    \/ UpdateResonators
    \/ UpdateWeights
    \/ BeginRead
    \/ ReadWeights
    \/ ReadCos
    \/ ReadSin
    \/ ReadLoop

SpecThreads == Init /\ [][NextThreads]_vars

\* ------------------------------------------------------------ observations
Called == log /= <<>>
LastCall == log[Len(log)]

\* this step is a call of op (the entry it appends to the log is the call)
Calls(op) == Len(log') = Len(log) + 1 /\ log'[Len(log')].op = op
Made == log'[Len(log')]

\* theta, phi, resonance wavelengths (array and objects), weights, rng state
Calibration(M) ==
    <<M.theta, M.theta_under, M.phi, M.res_wavelengths, M.resonators, M.resonator_weights,
      M.scl_seed>>

RECURSIVE CallsOn(_, _)
\* the calls of a log made on mesh m
CallsOn(l, m) ==
    IF l = <<>> THEN <<>>
    ELSE (IF Head(l).inst = m THEN <<Head(l)>> ELSE <<>>) \o CallsOn(Tail(l), m)

\* ------------------------------------------------------------------- C1
\* C1: in every state between public calls, the cached weight of every element
\* of every mesh is the weight function of its current _res_wavelengths entry,
\* probe_wavelength and q_factor.
C1_WeightsFresh ==
    \A m \in Inst :
        \A k \in 1..Len(mesh[m].resonator_weights) :
            mesh[m].resonator_weights[k] =
                WeightOf(mesh[m].res_wavelengths[k], mesh[m].probe_wavelength, mesh[m].q_factor)

\* a calibration call has moved a resonance wavelength and changed a weight
C1_Witness ==
    /\ Called
    /\ LastCall.op \in {"scl_update", "train_scl"}
    /\ \E k \in 1..Len(mesh[1].res_wavelengths) :
          /\ Len(mesh0[1].res_wavelengths) >= k
          /\ mesh[1].res_wavelengths[k] /= mesh0[1].res_wavelengths[k]
          /\ mesh[1].resonator_weights[k] /= mesh0[1].resonator_weights[k]

\* ------------------------------------------------------------------- C2
\* C2: whatever call changes an element's resonance wavelength also recomputes
\* the weights: the cached weight of every element is the weight of the
\* resonance wavelength its resonator object now has.
C2_RecomputeOnWrite ==
    \A m \in Inst :
        \A k \in 1..Len(mesh[m].resonator_weights) :
            mesh[m].resonator_weights[k] =
                WeightOf(mesh[m].resonators[k], mesh[m].probe_wavelength, mesh[m].q_factor)

\* ------------------------------------------------------------------- C3
\* a batch train_scl is to reject: lengths of the two lists differ, or a vector
\* is not of the mesh size
BadBatch(a, n) ==
    \/ Len(a.vecs) /= Len(a.tgts)
    \/ \E k \in 1..Len(a.vecs) : Len(a.vecs[k]) /= n

\* C3: a train_scl call with such a batch fails and leaves the mesh (theta, phi,
\* wavelengths, weights, rng state, loss history) exactly as it was.
C3_TrainValidates ==
    [][(Calls("train_scl") /\ BadBatch(Made.args, mesh[Made.inst].size))
          => (Made.status = "error" /\ mesh' = mesh)]_vars

\* ------------------------------------------------------------------- C4
\* C4: multiply and multiply_resonator_weighted with a vector whose length is
\* not the mesh size fail, and leave the mesh unchanged.
C4_MultiplyChecksLength ==
    [][((Calls("multiply") \/ Calls("multiply_resonator_weighted"))
            /\ Len(Made.args) /= mesh[Made.inst].size)
          => (Made.status = "error" /\ mesh' = mesh)]_vars

\* ------------------------------------------------------------------- C5
BadConfig(c) == c.size < 2 \/ c.q_factor <= 0 \/ c.probe_wavelength <= 0

\* C5: every constructor call with size < 2, q_factor <= 0 or probe_wavelength
\* <= 0 raises, and no mesh has such parameters.
C5_ConstructionValidates ==
    /\ \A i \in 1..Len(log) :
          (log[i].op = "construct" /\ BadConfig(log[i].args)) => log[i].status = "error"
    /\ \A m \in Inst : ~BadConfig(mesh[m])

\* ------------------------------------------------------------------- C6
\* C6: two meshes that started identical and were given the same train_scl
\* calls on well-formed, non-empty batches, and nothing else, returned the same
\* loss histories and are identical.
C6_ReproducibleTraining ==
    (/\ mesh0[1] = mesh0[2]
     /\ \A i \in 1..Len(log) :
           /\ log[i].op = "train_scl"
           /\ ~BadBatch(log[i].args, mesh0[1].size)
           /\ log[i].args.vecs /= <<>>
     /\ Len(CallsOn(log, 1)) = Len(CallsOn(log, 2))
     /\ \A i \in 1..Len(CallsOn(log, 1)) : CallsOn(log, 1)[i].args = CallsOn(log, 2)[i].args)
    => (/\ \A i \in 1..Len(CallsOn(log, 1)) :
              /\ CallsOn(log, 1)[i].status = CallsOn(log, 2)[i].status
              /\ CallsOn(log, 1)[i].value = CallsOn(log, 2)[i].value
        /\ mesh[1] = mesh[2])

\* ------------------------------------------------------------------- C7
\* one logged call applied to the pair st = [mesh, np] of a mesh and the
\* generator state, as the actions apply it
ApplyTo(st, c) ==
    IF c.op = "seed" THEN [st EXCEPT !.np = c.args]
    ELSE IF c.op = "construct"
    THEN (IF New(c.args.size, c.args.q_factor, c.args.probe_wavelength, st.np).status = "ok"
          THEN [mesh |-> New(c.args.size, c.args.q_factor, c.args.probe_wavelength, st.np).mesh,
                np |-> New(c.args.size, c.args.q_factor, c.args.probe_wavelength, st.np).np]
          ELSE [st EXCEPT !.np =
                   New(c.args.size, c.args.q_factor, c.args.probe_wavelength, st.np).np])
    ELSE IF c.op = "scl_update"
    THEN [st EXCEPT !.mesh = scl_update(st.mesh, c.args.target, c.args.predicted, c.args.lr).mesh]
    ELSE IF c.op = "train_scl"
    THEN [mesh |-> train_scl(st.mesh, st.np, c.args.vecs, c.args.tgts,
                             c.args.epochs, c.args.lr).mesh,
          np |-> train_scl(st.mesh, st.np, c.args.vecs, c.args.tgts,
                           c.args.epochs, c.args.lr).np]
    ELSE IF c.op = "encode_matrix"
    THEN [st EXCEPT !.mesh = encode_matrix(st.mesh, c.args).mesh]
    ELSE IF c.op = "tune_to"
    THEN [st EXCEPT !.mesh = tune_to(st.mesh, c.args[1], c.args[2])]
    ELSE st

RECURSIVE Replay(_, _, _)
\* mesh b's trajectory with the calls on other meshes left out of the log
Replay(st, l, b) ==
    IF l = <<>> THEN st
    ELSE IF Head(l).inst \in {0, b} THEN Replay(ApplyTo(st, Head(l)), Tail(l), b)
    ELSE Replay(st, Tail(l), b)

\* C7: when every call succeeded on a valid configuration, each mesh is in the
\* state its own calls (and the script's seeding) lead to: the calls made on the
\* other mesh in between make no difference.
C7_InstancesIndependent ==
    (\A i \in 1..Len(log) :
        /\ log[i].status = "ok"
        /\ log[i].op = "construct" => ~BadConfig(log[i].args))
    => \A b \in Inst : mesh[b] = Replay([mesh |-> mesh0[b], np |-> np0], log, b).mesh

\* ------------------------------------------------------------------- C8
\* C8: a train_scl call with e epochs leaves the stored loss history as the
\* history stored before followed by e new entries.
C8_HistoryAppendOnly ==
    [][(Calls("train_scl") /\ Made.status = "ok")
          => (/\ Len(mesh'[Made.inst].scl_loss_history)
                    = Len(mesh[Made.inst].scl_loss_history) + Made.args.epochs
              /\ SubSeq(mesh'[Made.inst].scl_loss_history, 1,
                        Len(mesh[Made.inst].scl_loss_history))
                    = mesh[Made.inst].scl_loss_history)]_vars

\* ------------------------------------------------------------------- C9
\* C9: train_scl with epochs = 0 returns an empty loss history and leaves theta,
\* phi, the resonance wavelengths, the weights and the rng state unchanged,
\* whatever the training set.
C9_ZeroEpochs ==
    [][(Calls("train_scl") /\ Made.args.epochs = 0)
          => (/\ Made.status = "ok"
              /\ Made.value = <<>>
              /\ Calibration(mesh'[Made.inst]) = Calibration(mesh[Made.inst]))]_vars

\* train_scl with epochs = 0 was called with a non-empty training set on a mesh
\* that an earlier call had calibrated
C9_Witness ==
    /\ Len(log) = 2
    /\ log[1].op = "scl_update" /\ log[1].status = "ok" /\ log[1].args.lr = 1
    /\ log[2].op = "train_scl" /\ log[2].args.epochs = 0 /\ Len(log[2].args.vecs) = 2
    /\ mesh[1].theta /= mesh0[1].theta

\* ------------------------------------------------------------------ C10
\* C10: for every size N >= 2 the index table has N(N-1)/2 entries, each with
\* 0 <= i < j < N, every pair of channels exactly once, in row-major order,
\* and building it again gives the same table.
C10_IndexTable ==
    \A m \in Inst :
        mesh[m].size >= 2 =>
            LET N == mesh[m].size
                I == mesh[m].mzi_i
                J == mesh[m].mzi_j
            IN /\ Len(I) = (N * (N - 1)) \div 2
               /\ Len(J) = Len(I)
               /\ \A k \in 1..Len(I) : 0 <= I[k] /\ I[k] < J[k] /\ J[k] < N
               /\ \A a \in 0..(N - 1) : \A b \in (a + 1)..(N - 1) :
                     Cardinality({k \in 1..Len(I) : I[k] = a /\ J[k] = b}) = 1
               /\ \A k \in 1..(Len(I) - 1) :
                     I[k] < I[k + 1] \/ (I[k] = I[k + 1] /\ J[k] < J[k + 1])
               /\ \A k \in 1..Len(I) :
                     BuildMziIndices(N, mesh[m].num_mzi)[k] = <<I[k], J[k]>>

\* a constructor call has built a mesh of the largest size
C10_Witness ==
    /\ Called
    /\ LastCall.op = "construct" /\ LastCall.status = "ok"
    /\ mesh[1].size = MaxSize
    /\ Len(mesh[1].mzi_i) = (MaxSize * (MaxSize - 1)) \div 2

\* ------------------------------------------------------------------ C11
ReadOps == {"multiply", "multiply_resonator_weighted", "compute_throughput", "resonator_stats"}

\* C11: multiply, multiply_resonator_weighted, compute_throughput and
\* resonator_stats, whether they return or raise, leave the mesh (theta, phi,
\* resonance wavelengths, weights, rng state, loss history), the process-wide
\* generator and the caller's input vector as they were.
C11_ReadsAreSideEffectFree ==
    [][(\E op \in ReadOps : Calls(op))
          => (/\ mesh' = mesh
              /\ np_random' = np_random
              /\ Made.value.vector = Made.args)]_vars

\* a weighted multiply returned a vector other than its input, on a mesh that an
\* earlier call had changed
C11_Witness ==
    /\ Called
    /\ LastCall.op = "multiply_resonator_weighted" /\ LastCall.status = "ok"
    /\ LastCall.value.out /= LastCall.args
    /\ mesh[1] /= mesh0[1]

\* ------------------------------------------------------------------ C12
\* input vectors of length n with real, zero and complex amplitudes
Amplitudes == {<<0, 0>>, <<AmpOne, 0>>, <<-3, 7>>}
ProbeVectors(n) == [1..n -> Amplitudes]

AllZero(a) == \A k \in 1..Len(a) : a[k] = 0

\* C12: on a mesh of size N >= 2 whose theta and phi are all 0, multiply
\* returns every input vector of length N unchanged.
C12_ZeroPhasesAreIdentity ==
    \A m \in Inst :
        (mesh[m].size >= 2 /\ AllZero(mesh[m].theta) /\ AllZero(mesh[m].phi))
        => \A v \in ProbeVectors(mesh[m].size) :
              multiply(mesh[m], v) = [status |-> "ok", value |-> v]

\* encode_matrix has zeroed the phases of a mesh of the largest size, whose
\* multiply was not the identity before
C12_Witness ==
    /\ Called
    /\ LastCall.op = "encode_matrix"
    /\ mesh[1].size = MaxSize /\ mesh[1].num_mzi > 0
    /\ AllZero(mesh[1].theta) /\ AllZero(mesh[1].phi)
    /\ multiply(mesh0[1], Ones(MaxSize)).value /= Ones(MaxSize)
    /\ multiply(mesh[1], Ones(MaxSize)).value = Ones(MaxSize)

\* ------------------------------------------------------------------ C13
\* C13: in every reachable state every phi[k] lies in [0, pi/2].
C13_PhiInRange ==
    \A m \in Inst :
        \A k \in 1..Len(mesh[m].phi) :
            0 <= mesh[m].phi[k] /\ mesh[m].phi[k] <= TwoPi \div 4

\* ------------------------------------------------------------------ C14
\* The recurrence as the claim writes it, on 64-bit values held as 8 bytes
\* (least significant first), with a and c taken from their decimal digits.
Digits_a == <<6, 3, 6, 4, 1, 3, 6, 2, 2, 3, 8, 4, 6, 7, 9, 3, 0, 0, 5>>
Digits_c == <<1, 4, 4, 2, 6, 9, 5, 0, 4, 0, 8, 8, 8, 9, 6, 3, 4, 0, 7>>
Zero64 == <<0, 0, 0, 0, 0, 0, 0, 0>>

RECURSIVE TimesPlus(_, _, _)
\* x * d + carry mod 256^Len(x), for a small d
TimesPlus(x, d, carry) ==
    IF x = <<>> THEN <<>>
    ELSE <<(x[1] * d + carry) % 256>> \o TimesPlus(Tail(x), d, (x[1] * d + carry) \div 256)

RECURSIVE Plus(_, _, _)
\* x + y + carry mod 256^Len(x)
Plus(x, y, carry) ==
    IF x = <<>> THEN <<>>
    ELSE <<(x[1] + y[1] + carry) % 256>>
         \o Plus(Tail(x), Tail(y), (x[1] + y[1] + carry) \div 256)

RECURSIVE FromDecimal(_, _)
FromDecimal(digits, acc) ==
    IF digits = <<>> THEN acc
    ELSE FromDecimal(Tail(digits), TimesPlus(acc, 10, Head(digits)))

Ref_a == FromDecimal(Digits_a, Zero64)
Ref_c == FromDecimal(Digits_c, Zero64)

RECURSIVE TimesFrom(_, _, _)
\* sum over i >= k of a[i] * x * 256^(i-1), mod 2^64
TimesFrom(x, a, k) ==
    IF k > 8 THEN Zero64
    ELSE Plus(SubSeq(Zero64, 1, k - 1) \o SubSeq(TimesPlus(x, a[k], 0), 1, 9 - k),
              TimesFrom(x, a, k + 1), 0)

RefNext(s) == Plus(TimesFrom(s, Ref_a, 1), Ref_c, 0)

RECURSIVE RefIter(_, _)
RefIter(s, n) == IF n <= 0 THEN s ELSE RefIter(RefNext(s), n - 1)

SeedInRange(s) == Len(s) = 8 /\ \A i \in 1..8 : s[i] \in 0..255

\* the number of scl_update steps a logged call may have completed
StepsOf(c) ==
    IF c.op = "scl_update" THEN (IF c.status = "ok" THEN {1} ELSE {0})
    ELSE IF c.op = "train_scl"
    THEN (IF c.status = "ok" THEN {c.args.epochs * Len(c.args.vecs)}
          ELSE 0..(c.args.epochs * Len(c.args.vecs)))
    ELSE {0}

\* C14: rng_state is always a 64-bit value; a scl_update call that performs its
\* update advances it by exactly B applications of
\* state <- (6364136223846793005 * state + 1442695040888963407) mod 2^64, a
\* train_scl call by B applications for each update it performed, and a call
\* that performs no update (a rejected scl_update, encode_matrix, a multiply,
\* tune_to) leaves it unchanged.
C14_RngAdvance ==
    /\ [](\A m \in Inst : SeedInRange(mesh[m].scl_seed))
    /\ [][Len(log') = Len(log) + 1
            => \E n \in StepsOf(Made) :
                  mesh'[1].scl_seed = RefIter(mesh[1].scl_seed, n * mesh[1].scl_bins)]_vars

\* a training call of two epochs on two samples has advanced the rng state of
\* a mesh with two bins (eight applications)
C14_Witness ==
    /\ Called
    /\ LastCall.op = "train_scl" /\ LastCall.status = "ok"
    /\ LastCall.args.epochs = 2 /\ Len(LastCall.args.vecs) = 2
    /\ mesh[1].scl_bins = 2
    /\ mesh[1].scl_seed /= mesh0[1].scl_seed
    /\ \E n \in {8, 9, 16} : mesh[1].scl_seed = RefIter(mesh0[1].scl_seed, n)

\* ------------------------------------------------------------------ C15
\* C15: every scl_update call that performs its update with a positive learning
\* rate applies a nonzero step to every element: each resonance wavelength
\* (which receives step * 0.01, as theta receives step modulo 2 pi) is changed.
C15_NoElementStarved ==
    [][(Calls("scl_update") /\ Made.status = "ok" /\ Made.args.lr > 0)
          => \A k \in 1..mesh[Made.inst].num_mzi :
                mesh'[Made.inst].res_wavelengths[k] /= mesh[Made.inst].res_wavelengths[k]]_vars

\* ------------------------------------------------------------------ C16
\* C16: at Q = 1000 the weight of an element whose resonance wavelength equals
\* the probe wavelength is 1.0 to within 1e-6 (at least WOne - 1 in weight
\* units), both as the mesh caches it and as amplitude_weight returns it.
C16_OnResonanceIsUnity ==
    /\ \A m \in Inst :
          \A k \in 1..Len(mesh[m].resonator_weights) :
              (mesh[m].q_factor = 1000
               /\ mesh[m].res_wavelengths[k] = mesh[m].probe_wavelength)
              => mesh[m].resonator_weights[k] >= WOne - 1
    /\ \A i \in 1..Len(log) :
          (/\ log[i].op = "amplitude_weight"
           /\ log[i].args.quality_factor = 1000
           /\ log[i].args.resonance_wavelength = log[i].args.probe_wavelength)
          => (log[i].status = "ok" /\ log[i].value >= WOne - 1)

\* ------------------------------------------------------------------ C17
\* C17: in every reachable state every cached weight is greater than 0 and at
\* most 1.
C17_WeightsInRange ==
    \A m \in Inst :
        \A k \in 1..Len(mesh[m].resonator_weights) :
            0 < mesh[m].resonator_weights[k] /\ mesh[m].resonator_weights[k] <= WOne

\* ------------------------------------------------------------------ C18
\* C18: a mesh of size N < 2 has no element (num_mzi = 0, empty index table,
\* no theta) and both multiply variants return their input unchanged.
C18_SmallSizesAreIdentity ==
    \A m \in Inst :
        mesh[m].size < 2
        => /\ mesh[m].num_mzi = 0
           /\ mesh[m].mzi_i = <<>> /\ mesh[m].mzi_j = <<>>
           /\ Len(mesh[m].theta) = 0
           /\ \A v \in ProbeVectors(NominalLen(mesh[m])) :
                 /\ multiply(mesh[m], v) = [status |-> "ok", value |-> v]
                 /\ multiply_resonator_weighted(mesh[m], v) = [status |-> "ok", value |-> v]

\* the theta and the weights a weighted multiply sees when mesh M is at rest:
\* the weights are the weight function of M's resonance wavelengths
AtRest(M) ==
    [theta |-> M.theta,
     weights |-> UpdateResonatorWeights(M.res_wavelengths, M.probe_wavelength, M.q_factor)]

\* the states of mesh 1 between calls: as constructed, and after each update
\* that has returned
Committed ==
    {AtRest(mesh0[1])} \cup
    {AtRest(log[i].loc.after) :
        i \in {j \in 1..Len(log) : log[j].op = "scl_update" /\ log[j].status = "ok"}}

ReadsOf(f) == [theta |-> f.loc.c_theta, weights |-> f.loc.w_arr]

\* C19: a weighted multiply that overlaps no update reads theta and weights of
\* one and the same state of the mesh between calls (the constructed one or the
\* one a completed update left), at every point of its reads; and an update
\* that has returned left the mesh exactly as the serialized scl_update does.
C19_SerializedReadsAreConsistent ==
    \A i \in 1..Len(log) :
        /\ (log[i].op = "multiply_resonator_weighted" /\ ~log[i].loc.overlap)
           => \/ log[i].pc = "355"
              \/ \E c \in Committed :
                    /\ log[i].loc.w_arr = c.weights
                    /\ log[i].pc \in {"358", "done"} => log[i].loc.c_theta = c.theta
                    /\ log[i].pc \in {"358", "done"} => log[i].loc.s_theta = c.theta
                    /\ log[i].pc = "357" => log[i].loc.c_theta = c.theta
        /\ (log[i].op = "scl_update" /\ log[i].pc = "done")
           => /\ scl_update(log[i].loc.before, log[i].args.target,
                            log[i].args.predicted, log[i].args.lr).status = log[i].status
              /\ scl_update(log[i].loc.before, log[i].args.target,
                            log[i].args.predicted, log[i].args.lr).value = log[i].value
              /\ log[i].status = "ok"
                 => scl_update(log[i].loc.before, log[i].args.target,
                               log[i].args.predicted, log[i].args.lr).mesh = log[i].loc.after

\* a weighted multiply interleaved with an update has read the theta the update
\* wrote together with the weights from before it: a pair no state between
\* calls holds
C19_Witness ==
    \E i, u \in 1..Len(log) :
        /\ log[i].op = "multiply_resonator_weighted" /\ log[i].status = "ok"
        /\ log[i].loc.overlap
        /\ log[u].op = "scl_update" /\ log[u].status = "ok"
        /\ log[i].loc.c_theta = log[u].loc.after.theta
        /\ log[i].loc.s_theta = log[u].loc.after.theta
        /\ log[i].loc.c_theta /= mesh0[1].theta
        /\ log[i].loc.w_arr = mesh0[1].resonator_weights
        /\ log[i].loc.w_arr /= log[u].loc.after.resonator_weights
        /\ ReadsOf(log[i]) \notin Committed

\* channel i becomes c*ai - s*aj and channel j becomes conj(s)*ai + c*aj, both
\* from the operands ai, aj taken before the element; every other channel of
\* old keeps its value
Channels(old, i, j, c, sre, sim, ai, aj) ==
    [n \in 1..Len(old) |->
        IF n = i
        THEN <<Quot(c * ai[1] - (sre * aj[1] - sim * aj[2]), TrigOne),
               Quot(c * ai[2] - (sre * aj[2] + sim * aj[1]), TrigOne)>>
        ELSE IF n = j
        THEN <<Quot(sre * ai[1] + sim * ai[2] + c * aj[1], TrigOne),
               Quot(sre * ai[2] - sim * ai[1] + c * aj[2], TrigOne)>>
        ELSE old[n]]

\* lines 339-343 and 359-364 for element k on the values old held before the
\* element: ai = old[i] * w, aj = old[j] * w
ElementOn(M, old, k, w) ==
    Channels(old, M.mzi_i[k] + 1, M.mzi_j[k] + 1, Cos(M.theta[k]),
             Quot(Sin(M.theta[k]) * Cos(M.phi[k]), TrigOne),
             Quot(Sin(M.theta[k]) * Sin(M.phi[k]), TrigOne),
             Scale(old[M.mzi_i[k] + 1], w[k]), Scale(old[M.mzi_j[k] + 1], w[k]))

RECURSIVE InOrder(_, _, _, _)
\* the elements listed in order applied one after the other, each on the
\* state the one before it left
InOrder(M, state, order, w) ==
    IF order = <<>> THEN state
    ELSE InOrder(M, Array(ElementOn(M, state, Head(order), w)), Tail(order), w)

\* input vectors of length n: one channel lit, all lit, and all lit with a
\* complex amplitude
OrderProbes(n) == {E0(n), Ones(n), [k \in 1..n |-> <<-3, 7>>]}

TableOrder(M) == [k \in 1..M.num_mzi |-> k]
ReverseOrder(M) == [k \in 1..M.num_mzi |-> M.num_mzi + 1 - k]
UnitWeights(M) == [k \in 1..M.num_mzi |-> WOne]

\* C20: on a mesh of size N >= 2 and a vector of length N, multiply applies the
\* elements in index-table order, each element computing both of its channels
\* from the values held before it and reading what earlier elements wrote;
\* multiply_resonator_weighted does the same with both operands first
\* multiplied by the element's weight; so with every weight equal to 1 the two
\* agree.
\* Checked on the mesh the last call was made on (the other mesh is as an
\* earlier state had it), and on both before any call.
C20_ElementOrder ==
    \A m \in IF Called THEN {LastCall.inst} \cap Inst ELSE Inst :
        mesh[m].size >= 2
        => \A v \in OrderProbes(mesh[m].size) :
              /\ multiply(mesh[m], v) =
                    [status |-> "ok",
                     value |-> InOrder(mesh[m], v, TableOrder(mesh[m]), UnitWeights(mesh[m]))]
              /\ multiply_resonator_weighted(mesh[m], v) =
                    [status |-> "ok",
                     value |-> InOrder(mesh[m], v, TableOrder(mesh[m]), mesh[m].resonator_weights)]
              /\ multiply_resonator_weighted(
                     [mesh[m] EXCEPT !.resonator_weights = UnitWeights(mesh[m])], v)
                 = multiply(mesh[m], v)

\* a multiply has returned on a mesh of three channels whose result depends on
\* the order of the elements, and a weighted multiply with weights below 1
\* differs from it
C20_Witness ==
    /\ Called
    /\ LastCall.op = "multiply" /\ LastCall.status = "ok"
    /\ mesh[LastCall.inst].size = 3
    /\ LastCall.value.out /= LastCall.args
    /\ LastCall.value.out /=
          InOrder(mesh[LastCall.inst], LastCall.args, ReverseOrder(mesh[LastCall.inst]),
                  UnitWeights(mesh[LastCall.inst]))
    /\ multiply_resonator_weighted(mesh[LastCall.inst], LastCall.args).value /= LastCall.value.out

\* C21: a successful encode_matrix(U) sets, for every element k of the index
\* table, theta[k] to the angle and phi[k] to the clipped magnitude of the
\* entry U[_mzi_i[k], _mzi_j[k]] (the pairing the multiply methods use), and
\* changes no other field of the mesh, nor numpy's generator.
C21_EncodeFollowsIndexTable ==
    [][(Calls("encode_matrix") /\ Made.status = "ok")
       => /\ \A k \in 1..Len(mesh[Made.inst].mzi_i) :
                /\ mesh'[Made.inst].theta[k] =
                      Made.args[mesh[Made.inst].mzi_i[k] + 1][mesh[Made.inst].mzi_j[k] + 1].arg
                /\ mesh'[Made.inst].phi[k] =
                      Clip(Made.args[mesh[Made.inst].mzi_i[k] + 1][mesh[Made.inst].mzi_j[k] + 1].mag,
                           0, TwoPi \div 4)
          /\ mesh' = [mesh EXCEPT ![Made.inst].theta = mesh'[Made.inst].theta,
                                  ![Made.inst].theta_under = mesh'[Made.inst].theta_under,
                                  ![Made.inst].phi = mesh'[Made.inst].phi]
          /\ np_random' = np_random]_vars

\* encode_matrix has returned on a mesh of three elements, which now hold
\* three different angles, none of them the one held before
C21_Witness ==
    /\ Called
    /\ LastCall.op = "encode_matrix" /\ LastCall.status = "ok"
    /\ mesh[LastCall.inst].num_mzi = 3
    /\ Cardinality({mesh[LastCall.inst].theta[k] : k \in 1..3}) = 3
    /\ \A k \in 1..3 : mesh[LastCall.inst].theta[k] /= mesh0[LastCall.inst].theta[k]

\* the elements of mesh M assigned to bin b
BinOf(M, b) == {k \in 1..M.num_mzi : M.scl_bin_ids[k] = b}

\* C22: on every mesh of size N >= 2 the bin count B is the ceiling of the
\* square root of the element count n ((B-1)^2 < n <= B^2), element k (from 0)
\* is in bin k mod B, every bin 0..B-1 holds at least floor(n / B) >= 1
\* elements, and two bins differ in size by at most one.
C22_Pigeonhole ==
    \A m \in Inst :
        mesh[m].size >= 2
        => /\ (mesh[m].scl_bins - 1) * (mesh[m].scl_bins - 1) < mesh[m].num_mzi
           /\ mesh[m].num_mzi <= mesh[m].scl_bins * mesh[m].scl_bins
           /\ Len(mesh[m].scl_bin_ids) = mesh[m].num_mzi
           /\ \A k \in 1..mesh[m].num_mzi :
                 mesh[m].scl_bin_ids[k] = (k - 1) % mesh[m].scl_bins
           /\ mesh[m].num_mzi \div mesh[m].scl_bins >= 1
           /\ \A b \in 0..(mesh[m].scl_bins - 1) :
                 Cardinality(BinOf(mesh[m], b)) >= mesh[m].num_mzi \div mesh[m].scl_bins
           /\ \A b, c \in 0..(mesh[m].scl_bins - 1) :
                 Cardinality(BinOf(mesh[m], b)) - Cardinality(BinOf(mesh[m], c)) <= 1

\* a mesh of the largest size has been built: its element count is no square,
\* it has more than two bins, and its bins are not all of one size
C22_Witness ==
    /\ Called
    /\ LastCall.op = "construct" /\ LastCall.status = "ok"
    /\ mesh[LastCall.inst].size = MaxMeshSize
    /\ mesh[LastCall.inst].scl_bins > 2
    /\ mesh[LastCall.inst].num_mzi < mesh[LastCall.inst].scl_bins * mesh[LastCall.inst].scl_bins
    /\ \E b, c \in 0..(mesh[LastCall.inst].scl_bins - 1) :
          Cardinality(BinOf(mesh[LastCall.inst], b)) /= Cardinality(BinOf(mesh[LastCall.inst], c))

\* C23: every perturbation value an scl_update draws lies strictly between
\* -0.5 and +0.5, whatever state of the recurrence the mesh is in.
C23_PerturbationStrictlyInside ==
    [][(Calls("scl_update") /\ Made.status = "ok")
       => \A k \in 1..mesh[Made.inst].scl_bins :
             PertValue(SclSeeds(mesh[Made.inst].scl_seed, mesh[Made.inst].scl_bins)[k])
                = "inside"]_vars

\* lr * drawn[bin_id[k]] * residual_norm for the call with arguments a on mesh M
StepFor(M, a, k) ==
    a.lr * SclNextBatch(M.scl_seed, M.scl_bins).out[M.scl_bin_ids[k] + 1]
         * Sqrt(SumAbs2(Residual(a.target, a.predicted)))

\* C24: in a successful scl_update every element k moves by the step
\* lr * drawn[bin_id[k]] * residual_norm, so elements of one bin move by the
\* same step; its resonance wavelength changes by 0.01 times the step (one
\* wavelength unit per step unit), its theta by the step modulo 2 pi; and
\* afterwards 0 <= theta[k] < 2 pi.
C24_BroadcastStep ==
    [][(Calls("scl_update") /\ Made.status = "ok")
       => \A k \in 1..mesh[Made.inst].num_mzi :
             /\ mesh'[Made.inst].res_wavelengths[k] - mesh[Made.inst].res_wavelengths[k]
                   = StepFor(mesh[Made.inst], Made.args, k)
             /\ (mesh'[Made.inst].theta[k] - mesh[Made.inst].theta[k]
                   - StepFor(mesh[Made.inst], Made.args, k)) % TwoPi = 0
             /\ \A l \in 1..mesh[Made.inst].num_mzi :
                   mesh[Made.inst].scl_bin_ids[k] = mesh[Made.inst].scl_bin_ids[l]
                   => StepFor(mesh[Made.inst], Made.args, k) = StepFor(mesh[Made.inst], Made.args, l)
             /\ 0 <= mesh'[Made.inst].theta[k]
             /\ mesh'[Made.inst].theta[k] < TwoPi]_vars

\* the orders in which s samples (numbered from 0) can each be visited once
Orders(s) == {p \in [1..s -> 0..(s - 1)] : \A a, b \in 1..s : p[a] = p[b] => a = b}

RECURSIVE VisitFrom(_, _, _, _, _, _, _)
VisitNext(vecs, tgts, lr, order, n, sum, u) ==
    VisitFrom(u.mesh, vecs, tgts, lr, order, n + 1, sum + u.value)

\* one epoch from position n of order on: the prediction for a sample is the
\* weighted multiply on the mesh the update before it left, and the update
\* takes that prediction; sum adds up the rms values returned
VisitFrom(M, vecs, tgts, lr, order, n, sum) ==
    IF n > Len(vecs) THEN [mesh |-> M, sum |-> sum]
    ELSE VisitNext(vecs, tgts, lr, order, n, sum,
                   scl_update(M, tgts[order[n] + 1],
                              multiply_resonator_weighted(M, vecs[order[n] + 1]).value, lr))

RECURSIVE EpochsFrom(_, _, _, _, _, _, _)
EpochNext(vecs, tgts, lr, orders, e, history, v) ==
    EpochsFrom(v.mesh, vecs, tgts, lr, orders, e + 1, Append(history, v.sum \div Len(vecs)))

\* the epochs from epoch e on, epoch i visiting the samples in order orders[i];
\* each appends the mean of its rms values
EpochsFrom(M, vecs, tgts, lr, orders, e, history) ==
    IF e > Cardinality(DOMAIN orders)
    THEN [mesh |-> [M EXCEPT !.scl_loss_history = history], value |-> history]
    ELSE EpochNext(vecs, tgts, lr, orders, e, history,
                   VisitFrom(M, vecs, tgts, lr, orders[e], 1, 0))

C26_EncodeAtomicOnError ==
    [][(Calls("encode_matrix") /\ Made.status = "error") => mesh' = mesh]_vars

\* C27: an scl_update call whose target and predicted differ in length fails,
\* and leaves the mesh (rng_state, theta, resonance wavelengths, resonator
\* objects, weights) as it was.
C27_UpdateAtomicOnError ==
    [][(Calls("scl_update") /\ Len(Made.args.target) /= Len(Made.args.predicted))
       => (Made.status = "error" /\ mesh' = mesh)]_vars

\* C28: after construction and any scl_update and train_scl calls, every
\* resonator object holds the wavelength of its array entry, and its
\* amplitude_weight(probe_wavelength) returns the weight cached for it.
C28_EvaluatorsAgree ==
    \A m \in Inst :
        \A k \in 1..mesh[m].num_mzi :
            /\ mesh[m].resonators[k] = mesh[m].res_wavelengths[k]
            /\ amplitude_weight(mesh[m].resonators[k], mesh[m].q_factor, mesh[m].probe_wavelength)
                  = [status |-> "ok", value |-> mesh[m].resonator_weights[k]]

\* C29: an scl_update call changes, of its mesh, only theta, the resonance
\* wavelengths (array and resonator objects), the cached weights and rng_state
\* (phi, the index table, the bin assignment, q_factor, probe_wavelength and
\* the stored loss history stay), and nothing outside its mesh; and a call
\* that changes the phi of a mesh is an encode_matrix call on that mesh.
C29_UpdateFrame ==
    [][/\ Calls("scl_update")
          => /\ mesh' = [mesh EXCEPT
                            ![Made.inst].theta = mesh'[Made.inst].theta,
                            ![Made.inst].theta_under = mesh'[Made.inst].theta_under,
                            ![Made.inst].res_wavelengths = mesh'[Made.inst].res_wavelengths,
                            ![Made.inst].resonators = mesh'[Made.inst].resonators,
                            ![Made.inst].resonator_weights = mesh'[Made.inst].resonator_weights,
                            ![Made.inst].scl_seed = mesh'[Made.inst].scl_seed]
             /\ np_random' = np_random
       /\ \A m \in Inst :
             mesh'[m].phi /= mesh[m].phi => (Calls("encode_matrix") /\ Made.inst = m)]_vars

\* an scl_update has returned having changed theta, the resonance wavelengths,
\* the weights and rng_state of its mesh
C29_Witness ==
    /\ Called
    /\ LastCall.op = "scl_update" /\ LastCall.status = "ok"
    /\ Len(log) = 1
    /\ mesh[1].theta /= mesh0[1].theta
    /\ mesh[1].res_wavelengths /= mesh0[1].res_wavelengths
    /\ mesh[1].resonators /= mesh0[1].resonators
    /\ mesh[1].resonator_weights /= mesh0[1].resonator_weights
    /\ mesh[1].scl_seed /= mesh0[1].scl_seed
    /\ mesh[1].phi = mesh0[1].phi

RECURSIVE StreamFrom(_, _)
\* the state s and the n states the recurrence reaches after it, in order
StreamFrom(s, n) == IF n = 0 THEN <<s>> ELSE <<s>> \o StreamFrom(RefNext(s), n - 1)

\* the stream of generator states from the fixed seed: entry i + 1 is the seed
\* after i steps (up to the most steps MaxCalls calls can take: four updates
\* a call, MaxSize bins an update)
SeedStream == StreamFrom(SCL_SEED0, 4 * MaxCalls * MaxSize)

\* the scl_update calls a call of the log has completed: one for a direct call
\* that returned, epochs * samples for a train_scl call that returned
UpdatesOf(c) ==
    IF c.status /= "ok" THEN 0
    ELSE IF c.op = "scl_update" THEN 1
    ELSE IF c.op = "train_scl" THEN c.args.epochs * Len(c.args.vecs)
    ELSE 0

RECURSIVE UpdatesIn(_)
UpdatesIn(l) == IF l = <<>> THEN 0 ELSE UpdatesOf(Head(l)) + UpdatesIn(Tail(l))

\* no train_scl call on mesh m stopped part-way through its samples
WholeCalls(m) ==
    \A i \in 1..Len(log) :
        (log[i].inst = m /\ log[i].op = "train_scl") => log[i].status = "ok"

\* C30: every mesh starts from the fixed seed, and the state of its generator
\* is always the fixed seed advanced by a multiple of B steps: by n * B steps
\* after n completed updates, whatever target, predicted, lr and the mesh's
\* own theta and wavelengths were.  So two meshes with the same bin count that
\* have completed the same number of updates, on whatever data, are at the same
\* point of the stream and draw the same perturbations next.
C30_StreamIgnoresData ==
    /\ \A m \in Inst :
          /\ mesh0[m].scl_seed = SCL_SEED0
          /\ \E n \in 0..(4 * MaxCalls) :
                mesh[m].scl_seed = SeedStream[n * mesh[m].scl_bins + 1]
          /\ WholeCalls(m)
             => mesh[m].scl_seed =
                   SeedStream[UpdatesIn(CallsOn(log, m)) * mesh[m].scl_bins + 1]
    /\ \A a, b \in Inst :
          (/\ WholeCalls(a) /\ WholeCalls(b)
           /\ mesh[a].scl_bins = mesh[b].scl_bins
           /\ UpdatesIn(CallsOn(log, a)) = UpdatesIn(CallsOn(log, b)))
          => SclNextBatch(mesh[a].scl_seed, mesh[a].scl_bins)
                = SclNextBatch(mesh[b].scl_seed, mesh[b].scl_bins)

\* two meshes have each completed one update, on different data and ending
\* with different theta, and are at the same point of the stream, past its start
C30_Witness ==
    /\ Len(log) = 2
    /\ log[1].op = "scl_update" /\ log[1].status = "ok" /\ log[1].inst = 1
    /\ log[2].op = "scl_update" /\ log[2].status = "ok" /\ log[2].inst = 2
    /\ log[1].args /= log[2].args
    /\ mesh[1].theta /= mesh[2].theta
    /\ mesh[1].scl_seed = mesh[2].scl_seed
    /\ mesh[1].scl_seed = SeedStream[mesh[1].scl_bins + 1]
    /\ mesh[1].scl_seed /= SCL_SEED0
====
